---- MODULE Spec2Model ----
(***************************************************************************)
(* A model of RustPython's bytecode generators:                            *)
(*   crates/compiler-core/generate.py          (instruction enums)         *)
(*   crates/compiler-core/tools/opargs_generator.py  (oparg types)         *)
(*   scripts/gen_opcodes.py                    (instruction enums, older)  *)
(*   crates/compiler-core/z.py                 (definition records)        *)
(* Strings are sequences of one-character strings, so that the name        *)
(* conversions and the sort by name are computed as Python computes them.  *)
(***************************************************************************)
EXTENDS Integers, Sequences, FiniteSets, TLC

\* ------------------------------------------------------------------------
\* Python strings
\* ------------------------------------------------------------------------

\* The characters, in code-point order (digits < upper case < "_" < lower).
Ascii ==
  << "0","1","2","3","4","5","6","7","8","9",
     "A","B","C","D","E","F","G","H","I","J","K","L","M",
     "N","O","P","Q","R","S","T","U","V","W","X","Y","Z",
     "_",
     "a","b","c","d","e","f","g","h","i","j","k","l","m",
     "n","o","p","q","r","s","t","u","v","w","x","y","z" >>

\* Concatenating with the empty function leaves a function as it is.
Dict(f) == f @@ << >>

\* ord(c), up to a constant offset.
OrdTable ==
  Dict([ c \in { Ascii[i] : i \in DOMAIN Ascii } |->
           CHOOSE i \in DOMAIN Ascii : Ascii[i] = c ])

Ord(c) == OrdTable[c]

IsUpper(c) == Ord(c) >= Ord("A") /\ Ord(c) <= Ord("Z")
IsLower(c) == Ord(c) >= Ord("a") /\ Ord(c) <= Ord("z")
IsCased(c) == IsUpper(c) \/ IsLower(c)

\* str.upper / str.lower on one character.
ToUpper(c) == IF IsLower(c) THEN Ascii[Ord(c) - Ord("a") + Ord("A")] ELSE c
ToLower(c) == IF IsUpper(c) THEN Ascii[Ord(c) - Ord("A") + Ord("a")] ELSE c

\* str.title(): a cased character is upper-cased when it starts a word (the
\* previous character is not cased) and lower-cased otherwise.
Title(s) ==
  [ i \in 1..Len(s) |->
      IF ~IsCased(s[i]) THEN s[i]
      ELSE IF i > 1 /\ IsCased(s[i-1]) THEN ToLower(s[i]) ELSE ToUpper(s[i]) ]

IsNotUnderscore(c) == c # "_"

\* str.replace("_", "")
RemoveUnderscores(s) == SelectSeq(s, IsNotUnderscore)

\* s < t for Python strings (lexicographic by code point).
RECURSIVE StrLess(_, _)
StrLess(s, t) ==
  IF t = << >> THEN FALSE
  ELSE IF s = << >> THEN TRUE
  ELSE IF Ord(Head(s)) # Ord(Head(t)) THEN Ord(Head(s)) < Ord(Head(t))
  ELSE StrLess(Tail(s), Tail(t))

\* sorted(S) for a set of distinct strings.
RECURSIVE SortedNames(_)
SortedNames(S) ==
  IF S = {} THEN << >>
  ELSE LET m == CHOOSE x \in S : \A y \in S \ {x} : StrLess(x, y)
       IN  << m >> \o SortedNames(S \ {m})

\* ------------------------------------------------------------------------
\* Instruction names (CPython spelling) used by the generators
\* ------------------------------------------------------------------------

A == << "A" >>
A_FAST == << "A","_","F","A","S","T" >>
B == << "B" >>
JUMP == << "J","U","M","P" >>
POP_BLOCK == << "P","O","P","_","B","L","O","C","K" >>
INSTRUMENTED_LINE ==
  << "I","N","S","T","R","U","M","E","N","T","E","D","_","L","I","N","E" >>
BINARY_OP == << "B","I","N","A","R","Y","_","O","P" >>
RESUME == << "R","E","S","U","M","E" >>
RAISE_VARARGS == << "R","A","I","S","E","_","V","A","R","A","R","G","S" >>
CALL_INTRINSIC_1 ==
  << "C","A","L","L","_","I","N","T","R","I","N","S","I","C","_","1" >>
CALL_INTRINSIC_2 ==
  << "C","A","L","L","_","I","N","T","R","I","N","S","I","C","_","2" >>
UNPACK_EX == << "U","N","P","A","C","K","_","E","X" >>

\* Python's None where a name is expected (no instruction has the empty name).
None == << >>

\* analyzer.Properties, the fields the generator reads.
Properties(oparg, jumps, uses_co_consts, uses_co_names, uses_locals, has_free, pure) ==
  [ oparg |-> oparg, jumps |-> jumps, uses_co_consts |-> uses_co_consts,
    uses_co_names |-> uses_co_names, uses_locals |-> uses_locals,
    has_free |-> has_free, pure |-> pure ]

\* analyzer.Instruction / analyzer.PseudoInstruction as the generator sees it:
\* family is the family's name, or None (a pseudo instruction has no family
\* attribute, which Inst.family reads as None).
Instruction(name, properties, family) ==
  [ name |-> name, properties |-> properties, family |-> family,
    stack |-> [ popped |-> 0, pushed |-> 0, raises |-> FALSE ] ]

\* What stack.get_stack_effect(inst) gives for the instruction's parts: the
\* items popped (-base_offset) and pushed (top_offset - base_offset), or
\* that it raises stack.StackError.  An instruction without parts pops and
\* pushes nothing.
StackEffect(popped, pushed, raises) ==
  [ popped |-> popped, pushed |-> pushed, raises |-> raises ]

WithStack(inst, stack) == [ inst EXCEPT !.stack = stack ]

\* ------------------------------------------------------------------------
\* generate.py: Oparg, Inst
\* ------------------------------------------------------------------------

\* try_from_instruction with the properties read before the name.
TryFromInstructionPropertiesFirst(inst) ==
  LET prop == inst.properties IN
  IF ~prop.oparg THEN "None"
  ELSE IF prop.jumps THEN "Delta"
  ELSE IF prop.uses_co_consts THEN "ConstIdx"
  ELSE IF prop.uses_co_names THEN "NameIdx"
  ELSE IF inst.name = BINARY_OP THEN "BinaryOperator"
  ELSE IF inst.name = RESUME THEN "Resume"
  ELSE IF inst.name = RAISE_VARARGS THEN "RaiseVarArgs"
  ELSE IF inst.name = CALL_INTRINSIC_1 THEN "CallIntrinsic1"
  ELSE IF inst.name = CALL_INTRINSIC_2 THEN "CallIntrinsic2"
  ELSE IF inst.name = UNPACK_EX THEN "UnpackEx"
  ELSE "Raw"

\* Oparg.try_from_instruction: "None" stands for Python's None.
TryFromInstruction(inst) ==
  LET prop == inst.properties IN
  IF ~prop.oparg THEN "None"
  ELSE IF inst.name = BINARY_OP THEN "BinaryOperator"
  ELSE IF inst.name = RESUME THEN "Resume"
  ELSE IF inst.name = RAISE_VARARGS THEN "RaiseVarArgs"
  ELSE IF inst.name = CALL_INTRINSIC_1 THEN "CallIntrinsic1"
  ELSE IF inst.name = CALL_INTRINSIC_2 THEN "CallIntrinsic2"
  ELSE IF inst.name = UNPACK_EX THEN "UnpackEx"
  ELSE IF prop.jumps THEN "Delta"
  ELSE IF prop.uses_co_consts THEN "ConstIdx"
  ELSE IF prop.uses_co_names THEN "NameIdx"
  ELSE "Raw"

\* Oparg.__format__ (generate.py): the Rust path written into a case.
OpargFormat(oparg) == "crate::" \o (IF oparg = "Raw" THEN "" ELSE oparg) \o "Oparg"

\* Inst.name
InstName(inst) == RemoveUnderscores(Title(inst.name))

\* Inst.deopt
InstDeopt(inst) ==
  IF inst.family = None THEN InstName(inst)
  ELSE RemoveUnderscores(Title(inst.family))

\* InstructionsMeta.name_table: {inst.name: inst for inst in self}, built one
\* item after the other, a later item replacing an earlier one of its name.
RECURSIVE NameTableUpTo(_, _)
NameTableUpTo(insts, n) ==
  IF n = 0 THEN << >>
  ELSE (InstName(insts[n]) :> insts[n]) @@ NameTableUpTo(insts, n - 1)

NameTable(insts) == NameTableUpTo(insts, Len(insts))

\* The instructions that get an entry in the deopt table.
IsSpecialized(inst) == InstName(inst) # InstDeopt(inst)

\* self.name_table[inst.deopt] raises KeyError for some instruction.
DeoptTableKeyError(insts) ==
  LET names == NameTable(insts) IN
  \E i \in DOMAIN insts :
     IsSpecialized(insts[i]) /\ InstDeopt(insts[i]) \notin DOMAIN names

\* InstructionsMeta.deopt_table (defined when no KeyError is raised):
\* {inst.name: self.name_table[inst.deopt] for inst in self
\*  if inst.name != inst.deopt}
RECURSIVE DeoptTableUpTo(_, _, _)
DeoptTableUpTo(insts, names, n) ==
  IF n = 0 THEN << >>
  ELSE IF IsSpecialized(insts[n])
       THEN (InstName(insts[n]) :> names[InstDeopt(insts[n])])
              @@ DeoptTableUpTo(insts, names, n - 1)
       ELSE DeoptTableUpTo(insts, names, n - 1)

DeoptTable(insts) == DeoptTableUpTo(insts, NameTable(insts), Len(insts))

\* The depth at which Python gives up a recursion (sys.getrecursionlimit()),
\* scaled down; it exceeds the size of every instruction set of the model.
RecursionLimit == 6

\* Inst.oparg(table): the names of the instructions whose oparg() is called,
\* one per frame, following the deopt table.  The walk stops at an
\* instruction with no entry in the table, or when the frames run out.
RECURSIVE OpargFrames(_, _, _)
OpargFrames(inst, table, fuel) ==
  IF fuel = 0 THEN << >>
  ELSE IF InstName(inst) \in DOMAIN table
       THEN << InstName(inst) >> \o OpargFrames(table[InstName(inst)], table, fuel - 1)
       ELSE << InstName(inst) >>

\* The instruction the walk ends at (meaningful when it ends).
RECURSIVE OpargTarget(_, _, _)
OpargTarget(inst, table, fuel) ==
  IF fuel = 0 \/ InstName(inst) \notin DOMAIN table THEN inst
  ELSE OpargTarget(table[InstName(inst)], table, fuel - 1)

\* Inst.oparg(table) does not return: the recursion exceeds the limit.
OpargRecursionError(inst, table) ==
  LET frames == OpargFrames(inst, table, RecursionLimit) IN
  Len(frames) = RecursionLimit /\ frames[RecursionLimit] \in DOMAIN table

\* A slip in Inst.oparg: the deopt table not consulted.
OpargOfOwnProperties(inst, table) == TryFromInstruction(inst)

\* Inst.oparg(table), when it returns.
Oparg(inst, table) ==
  TryFromInstruction(OpargTarget(inst, table, RecursionLimit))

\* as_match_arm with the pattern following the instruction's own properties.
AsMatchArmOfOwnProperties(inst, table) ==
  [ name |-> InstName(inst), payload |-> inst.properties.oparg ]

\* Inst.as_match_arm(table): the variant's name and whether the pattern
\* carries a payload "(value)".
AsMatchArm(inst, table) ==
  [ name |-> InstName(inst), payload |-> Oparg(inst, table) # "None" ]

\* ------------------------------------------------------------------------
\* generate.py: InstructionsMeta, RealInstructions, PseudoInstructions
\* ------------------------------------------------------------------------

\* The instruction RealInstructions.__iter__ adds: no parts, no family, so
\* every property is False except pure (all() of nothing).
ExtraInstruction ==
  Instruction(INSTRUMENTED_LINE,
              Properties(FALSE, FALSE, FALSE, FALSE, FALSE, FALSE, TRUE), None)

\* dict.values(): the values in the order the keys were inserted, which is
\* the sequence `order` (the names of the dict, each once).
RECURSIVE Values(_, _)
Values(dict, order) ==
  IF order = << >> THEN << >>
  ELSE IF Head(order) \in DOMAIN dict
       THEN << dict[Head(order)] >> \o Values(dict, Tail(order))
       ELSE Values(dict, Tail(order))

\* The place sorted() gives an added instruction: after every instruction
\* whose name is not greater (the sort is stable, the added one comes last).
RECURSIVE InsertSorted(_, _)
InsertSorted(insts, extra) ==
  IF insts = << >> THEN << extra >>
  ELSE IF StrLess(extra.name, Head(insts).name) THEN << extra >> \o insts
  ELSE << Head(insts) >> \o InsertSorted(Tail(insts), extra)

\* A slip in __iter__: the call of sorted() left out.
NotSorted(insts) == insts

\* sorted(insts, key=lambda inst: inst.name): the items placed one after the
\* other, each behind the items whose name is not greater.
RECURSIVE SortedByName(_)
SortedByName(insts) ==
  IF insts = << >> THEN << >>
  ELSE InsertSorted(SortedByName(SubSeq(insts, 1, Len(insts) - 1)), insts[Len(insts)])

\* A slip in RealInstructions.__iter__: the values chained and not sorted.
RealIterInsertionOrder(an) ==
  Values(an.instructions, an.order.instructions) \o << ExtraInstruction >>

\* RealInstructions.__iter__
RealIter(an) ==
  SortedByName(Values(an.instructions, an.order.instructions) \o << ExtraInstruction >>)

\* PseudoInstructions.__iter__
PseudoIter(an) == SortedByName(Values(an.pseudos, an.order.pseudos))

\* The first instruction of the loop of rust_code at which it raises, or 0.
\* Building the deopt table (on the first pass) may raise KeyError as well.
FirstFailure(insts, opmap) ==
  LET table == DeoptTable(insts)
      bad == { i \in DOMAIN insts :
                 \/ insts[i].name \notin DOMAIN opmap
                 \/ OpargRecursionError(insts[i], table) }
  IN  IF insts = << >> THEN 0
      ELSE IF DeoptTableKeyError(insts) THEN 1
      ELSE IF bad = {} THEN 0
      ELSE CHOOSE i \in bad : \A j \in bad : i <= j

\* The exception rust_code ends with, or "none".
RustCodeError(insts, opmap) ==
  LET i == FirstFailure(insts, opmap) IN
  IF i = 0 THEN "none"
  ELSE IF insts[i].name \notin DOMAIN opmap THEN "KeyError"
  ELSE IF DeoptTableKeyError(insts) THEN "KeyError"
  ELSE "RecursionError"

\* enum_variants of rust_code: one variant per instruction of the iteration,
\* in its order: name, payload type ("None": no payload), discriminant.
EnumVariants(insts, opmap) ==
  LET table == DeoptTable(insts) IN
  [ i \in DOMAIN insts |->
      [ name |-> InstName(insts[i]),
        oparg |-> Oparg(insts[i], table),
        opcode |-> opmap[insts[i].name] ] ]

\* get_stack_effect raises for an instruction of the iteration.
StackEffectError(insts) == \E i \in DOMAIN insts : insts[i].stack.raises

\* RealInstructions._generate_stack_effect: one arm "pattern => expr" per
\* instruction, the expression being what the analysis gives.
GenerateStackEffect(insts, direction) ==
  LET table == DeoptTable(insts) IN
  { [ arm |-> AsMatchArm(insts[i], table), expr |-> insts[i].stack[direction] ] :
      i \in DOMAIN insts }

\* The fn_has_* properties: the generated function has_<fn> and the property
\* of the analyzer it is built from.
HasAttrFns ==
  ("arg" :> "oparg") @@ ("const" :> "uses_co_consts") @@ ("name" :> "uses_co_names")
    @@ ("jump" :> "jumps") @@ ("free" :> "has_free") @@ ("local" :> "uses_locals")
    @@ ("exc" :> "pure")

\* A slip in build_has_attr_fn: the property read from the instruction the
\* case deopts into, the way the payload is.
BuildHasAttrFnOfTarget(insts, prop_attr) ==
  LET table == DeoptTable(insts) IN
  { AsMatchArm(insts[i], table) :
      i \in { j \in DOMAIN insts :
                OpargTarget(insts[j], table, RecursionLimit).properties[prop_attr] } }

\* InstructionsMeta.build_has_attr_fn: the arms of matches!(self, ...), one
\* per instruction whose property is set; with no arm the body is "false".
BuildHasAttrFn(insts, prop_attr) ==
  LET table == DeoptTable(insts) IN
  { AsMatchArm(insts[i], table) : i \in { j \in DOMAIN insts : insts[j].properties[prop_attr] } }

\* The has_* functions of an enum.
FnHas(insts) ==
  [ fn \in DOMAIN HasAttrFns |-> BuildHasAttrFn(insts, HasAttrFns[fn]) ]

\* fn_deopt with the arms grouped: one arm per instruction deopted into.
FnDeoptByFamily(insts) ==
  LET table == DeoptTable(insts)
      targets == { table[k] : k \in DOMAIN table }
  IN  { [ left |-> AsMatchArm(NameTable(insts)[CHOOSE k \in DOMAIN table : table[k] = t], table),
          right |-> AsMatchArm(t, table) ] : t \in targets }

\* RealInstructions.fn_deopt: one arm "left => right" per entry of the deopt
\* table.
FnDeopt(insts) ==
  LET table == DeoptTable(insts) IN
  { [ left |-> AsMatchArm(NameTable(insts)[k], table),
      right |-> AsMatchArm(table[k], table) ] : k \in DOMAIN table }

\* ------------------------------------------------------------------------
\* generate.py: main(), as a state machine
\* ------------------------------------------------------------------------

VARIABLES
  analysis,     \* analyzer.analyze_files(...): instructions, pseudos, opmap
  definitions,  \* the declarative table: one record per instruction definition
  z_rs,         \* z.py: the entries of z.rs
  pc,           \* "start", "real", "pseudo", "formatted", "written", "done",
                \* "unformatted", "failed"
  real_code,    \* real_instructions.rust_code, once evaluated
  pseudo_code,  \* pseudo_instructions.rust_code, once evaluated
  lookups,      \* the frames of each Inst.oparg() call of the real enum's loop
  error,        \* the exception that ended the run, or "none"
  out,          \* OUT_PATH
  typ,          \* oparg types: the named type whose conversion is called
  raw,          \* oparg types: the u32 given to try_from
  result,       \* oparg types: what try_from returned
  offset,       \* stack.StackOffset: the sizes appended to popped and pushed
  inner         \* an enum class (class Inner): its base, its declarations with
                \* the values they got, and, once the class exists, its members

genVars == << analysis, definitions, z_rs, pc, real_code, pseudo_code, lookups, error, out >>
opargVars == << typ, raw, result >>
vars ==
  << analysis, definitions, z_rs, pc, real_code, pseudo_code, lookups, error, out, typ,
     raw, result, offset, inner >>

\* A StackOffset nothing was popped from or pushed on, and no enum class yet.
EmptyOffset == [ popped |-> << >>, pushed |-> << >> ]
NoEnum ==
  [ defined |-> FALSE, kind |-> "", decls |-> << >>, values |-> << >>, members |-> << >> ]

NotEvaluated ==
  [ evaluated |-> FALSE, enum_variants |-> << >>, fn_deopt |-> {}, fn_has |-> << >>,
    fn_num_popped |-> {}, fn_num_pushed |-> {} ]
NotWritten == [ written |-> FALSE, real |-> NotEvaluated, pseudo |-> NotEvaluated ]

\* What rust_code returns for the real enum and for the pseudo enum, when it
\* returns: PseudoInstructions defines no fn_deopt and no fn_num_*.
RealCode(an) ==
  LET insts == RealIter(an) IN
  [ evaluated |-> TRUE,
    enum_variants |-> EnumVariants(insts, an.opmap),
    fn_deopt |-> FnDeopt(insts),
    fn_has |-> FnHas(insts),
    fn_num_popped |-> GenerateStackEffect(insts, "popped"),
    fn_num_pushed |-> GenerateStackEffect(insts, "pushed") ]

PseudoCode(an) ==
  LET insts == PseudoIter(an) IN
  [ evaluated |-> TRUE,
    enum_variants |-> EnumVariants(insts, an.opmap),
    fn_deopt |-> {},
    fn_has |-> FnHas(insts),
    fn_num_popped |-> {},
    fn_num_pushed |-> {} ]

\* real_instructions.rust_code (f-string of main, first interpolation).
RealRustCode ==
  /\ pc = "start"
  /\ LET insts == RealIter(analysis)
         fail == FirstFailure(insts, analysis.opmap)
         loop == RustCodeError(insts, analysis.opmap)
         err == IF loop = "none" /\ StackEffectError(insts) THEN "StackError" ELSE loop
         looked == IF DeoptTableKeyError(insts) THEN 0
                   ELSE IF fail = 0 THEN Len(insts)
                   ELSE IF insts[fail].name \in DOMAIN analysis.opmap THEN fail
                   ELSE fail - 1
     IN  /\ lookups' = [ i \in 1..looked |->
                           OpargFrames(insts[i], DeoptTable(insts), RecursionLimit) ]
         /\ IF err = "none"
            THEN /\ real_code' = RealCode(analysis)
                 /\ pc' = "real"
                 /\ error' = error
            ELSE /\ real_code' = real_code
                 /\ pc' = "failed"
                 /\ error' = err
  /\ UNCHANGED << offset, inner, analysis, definitions, z_rs, pseudo_code, out, typ, raw, result >>

\* pseudo_instructions.rust_code (second interpolation).
PseudoRustCode ==
  /\ pc = "real"
  /\ LET insts == PseudoIter(analysis)
         err == RustCodeError(insts, analysis.opmap)
     IN  IF err = "none"
         THEN /\ pseudo_code' = PseudoCode(analysis)
              /\ pc' = "pseudo"
              /\ error' = error
         ELSE /\ pseudo_code' = pseudo_code
              /\ pc' = "failed"
              /\ error' = err
  /\ UNCHANGED << offset, inner, analysis, definitions, z_rs, real_code, lookups, out, typ, raw,
                  result >>

\* rustfmt(out): subprocess.check_output returns the formatted text ...
Rustfmt ==
  /\ pc = "pseudo"
  /\ pc' = "formatted"
  /\ UNCHANGED << offset, inner, analysis, definitions, z_rs, real_code, pseudo_code, lookups, error,
                  out, typ, raw, result >>

\* ... or raises when rustfmt exits with an error.
RustfmtRaises ==
  /\ pc = "pseudo"
  /\ pc' = "failed"
  /\ error' = "CalledProcessError"
  /\ UNCHANGED << offset, inner, analysis, definitions, z_rs, real_code, pseudo_code, lookups, out,
                  typ, raw, result >>

\* OUT_PATH.write_text(...)
WriteText ==
  /\ pc = "formatted"
  /\ out' = [ written |-> TRUE, real |-> real_code, pseudo |-> pseudo_code ]
  /\ pc' = "done"
  /\ UNCHANGED << offset, inner, analysis, definitions, z_rs, real_code, pseudo_code, lookups, error,
                  typ, raw, result >>

\* ------------------------------------------------------------------------
\* opargs_generator.py: the enums behind the named oparg types
\* ------------------------------------------------------------------------

\* a | b on naturals.
RECURSIVE BitOr(_, _)
BitOr(a, b) ==
  IF a = 0 THEN b
  ELSE IF b = 0 THEN a
  ELSE (IF a % 2 = 1 \/ b % 2 = 1 THEN 1 ELSE 0) + 2 * BitOr(a \div 2, b \div 2)

\* enum._is_single_bit
RECURSIVE IsSingleBit(_)
IsSingleBit(v) ==
  IF v <= 0 THEN FALSE
  ELSE IF v = 1 THEN TRUE
  ELSE v % 2 = 0 /\ IsSingleBit(v \div 2)

\* The least power of two, from p on, above m.
RECURSIVE PowerOfTwoAbove(_, _)
PowerOfTwoAbove(p, m) == IF p > m THEN p ELSE PowerOfTwoAbove(2 * p, m)

\* max(last_values)
MaxOf(values) ==
  CHOOSE v \in { values[i] : i \in DOMAIN values } :
    \A i \in DOMAIN values : values[i] <= v

\* A member declared "Name = enum.auto()" and one declared "Name = value"
\* (the optional docstring after the value does not reach the value).
Auto(name) == [ name |-> name, auto |-> TRUE, value |-> 0 ]
Explicit(name, value) == [ name |-> name, auto |-> FALSE, value |-> value ]

\* enum.Enum._generate_next_value_, which DocEnum overrides: one more than the
\* largest value so far, from 1.
EnumNextValue(count, last_values) ==
  IF count = 0 THEN 1 ELSE MaxOf(last_values) + 1

\* DocEnum._generate_next_value_
DocEnumNextValue(count, last_values) == count

\* enum.IntFlag._generate_next_value_, which SetFunctionAttribute's Inner and
\* CmpOp's Cmp use: the first power of two above every earlier value.
IntFlagNextValue(count, last_values) ==
  IF count = 0 THEN 1 ELSE PowerOfTwoAbove(1, MaxOf(last_values))

GenerateNextValue(kind, count, last_values) ==
  IF kind = "IntFlag" THEN IntFlagNextValue(count, last_values)
  ELSE DocEnumNextValue(count, last_values)

\* The values of the declared members, in declaration order.
RECURSIVE DeclaredValues(_, _, _)
DeclaredValues(kind, decls, n) ==
  IF n = 0 THEN << >>
  ELSE LET before == DeclaredValues(kind, decls, n - 1) IN
       Append(before,
              IF decls[n].auto THEN GenerateNextValue(kind, n - 1, before)
              ELSE decls[n].value)

\* A slip in the choice of Inner's base: every enum iterated the way a Flag
\* is, without the members that are not a single bit.
MembersOfFlag(kind, decls) ==
  LET values == DeclaredValues(kind, decls, Len(decls))
      keep == { i \in DOMAIN decls :
                  /\ \A j \in 1..(i - 1) : values[j] # values[i]
                  /\ IsSingleBit(values[i]) }
      order == [ k \in 1..Cardinality(keep) |->
                   CHOOSE i \in keep : Cardinality({ j \in keep : j < i }) = k - 1 ]
  IN  [ k \in 1..Cardinality(keep) |->
          [ name |-> decls[order[k]].name, value |-> values[order[k]] ] ]

\* Iterating an enum class: the members in declaration order, without the
\* aliases (a value already taken by an earlier member) and, for a Flag,
\* without the members that are not a single bit.
Members(kind, decls) ==
  LET values == DeclaredValues(kind, decls, Len(decls))
      keep == { i \in DOMAIN decls :
                  /\ \A j \in 1..(i - 1) : values[j] # values[i]
                  /\ kind = "IntFlag" => IsSingleBit(values[i]) }
      order == [ k \in 1..Cardinality(keep) |->
                   CHOOSE i \in keep : Cardinality({ j \in keep : j < i }) = k - 1 ]
  IN  [ k \in 1..Cardinality(keep) |->
          [ name |-> decls[order[k]].name, value |-> values[order[k]] ] ]

\* CmpOp.flags: class Cmp(enum.IntFlag), the members declared with auto().
CmpAutoDecls ==
  << Auto("Unordered"), Auto("LessThan"), Auto("GreaterThan"), Auto("Equals") >>

\* The value of a member of Cmp; NotEquals is declared as
\* Unordered | LessThan | GreaterThan.
RECURSIVE Cmp(_)
Cmp(name) ==
  IF name = "NotEquals"
  THEN BitOr(BitOr(Cmp("Unordered"), Cmp("LessThan")), Cmp("GreaterThan"))
  ELSE LET values == DeclaredValues("IntFlag", CmpAutoDecls, Len(CmpAutoDecls))
           i == CHOOSE i \in DOMAIN CmpAutoDecls : CmpAutoDecls[i].name = name
       IN  values[i]

\* The classes whose instances main() generates as named types.
NamedTypes ==
  { "CmpOp", "BuildSlice", "Resume", "BinOp", "CallIntrinsic1", "CallIntrinsic2",
    "RaiseVarargs", "SetFunctionAttribute", "ConvertValue", "Invert", "Where" }

\* Inner's base: enum.IntFlag for SetFunctionAttribute, enum.IntEnum otherwise.
FlagsKind(t) == IF t = "SetFunctionAttribute" THEN "IntFlag" ELSE "IntEnum"

\* The members each flags property declares.
FlagsDecls(t) ==
  CASE t = "CmpOp" ->
    << Explicit("Lt", Cmp("LessThan")),
       Explicit("Le", BitOr(Cmp("LessThan"), Cmp("Equals"))),
       Explicit("Eq", Cmp("Equals")),
       Explicit("Ne", Cmp("NotEquals")),
       Explicit("Gt", Cmp("GreaterThan")),
       Explicit("Ge", BitOr(Cmp("GreaterThan"), Cmp("Equals"))) >>
    [] t = "BuildSlice" -> << Explicit("Two", 2), Explicit("Three", 3) >>
    [] t = "Resume" ->
  <<
     Auto("AtFuncStart"), Auto("AfterYield"), Auto("AfterYieldFrom"),
     Auto("AfterAwait") >>
    [] t = "BinOp" ->
  <<
     Auto("Add"), Auto("And"), Auto("FloorDivide"), Auto("Lshift"),
     Auto("MatrixMultiply"), Auto("Multiply"), Auto("Remainder"), Auto("Or"),
     Auto("Power"), Auto("Rshift"), Auto("Subtract"), Auto("TrueDivide"),
     Auto("Xor"), Auto("InplaceAdd"), Auto("InplaceAnd"),
     Auto("InplaceFloorDivide"), Auto("InplaceLshift"),
     Auto("InplaceMatrixMultiply"), Auto("InplaceMultiply"),
     Auto("InplaceRemainder"), Auto("InplaceOr"), Auto("InplacePower"),
     Auto("InplaceRshift"), Auto("InplaceSubtract"),
     Auto("InplaceTrueDivide"), Auto("InplaceXor") >>
    [] t = "CallIntrinsic1" ->
  <<
     Auto("Invalid"), Auto("Print"), Auto("ImportStar"),
     Auto("StopIterationError"), Auto("AsyncGenWrap"), Auto("UnaryPositive"),
     Auto("ListToTuple"), Auto("TypeVar"), Auto("ParamSpec"),
     Auto("TypeVarTuple"), Auto("SubscriptGeneric"), Auto("TypeAlias") >>
    [] t = "CallIntrinsic2" ->
  <<
     Auto("Invalid"), Auto("PrepReraiseStar"), Auto("TypeVarWithBound"),
     Auto("TypeVarWithConstraint"), Auto("SetFunctionTypeParams") >>
    [] t = "RaiseVarargs" -> << Auto("Reraise"), Auto("Raise"), Auto("RaiseCause") >>
    [] t = "SetFunctionAttribute" ->
  << Auto("Defaults"), Auto("KwDefaults"), Auto("Annotations"), Auto("Closure") >>
    [] t = "ConvertValue" -> << Auto("None"), Auto("Str"), Auto("Repr"), Auto("Ascii") >>
    [] t = "Invert" -> << Auto("No"), Auto("Yes") >>
    [] t = "Where" -> << Auto("NoWhere"), Auto("AfterAEnter"), Auto("AfterAExit") >>

\* NamedOpargType.flags, iterated.
Flags(t) == Members(FlagsKind(t), FlagsDecls(t))

\* The subclasses of AliasOpargType.
AliasTypes == { "NameIdx", "ConstIdx", "Compare", "Count", "Delta", "VarNum" }

\* OpargTypeMeta.name: the class name followed by "Oparg"; CmpOp overrides it.
TypeName(cls) == IF cls = "CmpOp" THEN "CmpOp" ELSE cls \o "Oparg"

\* The names of the types the file main() writes defines.
RegistryNames == { TypeName(cls) : cls \in NamedTypes \cup AliasTypes }

\* ------------------------------------------------------------------------
\* opargs_generator.py: NamedOpargType, and what the generated Rust computes
\* ------------------------------------------------------------------------

\* ERR = f"{BASE_ERR}::InvalidBytecode", the variant of crate::MarshalError
\* every generated try_from returns on failure.
ERR == "InvalidBytecode"

\* NamedOpargType.rust_def: the variants "Name = value" of the enum.
RustDef(t) == Flags(t)

\* A slip in trait_try_from_inner: the arms numbered by their position in
\* the iteration instead of carrying member.value.
TraitTryFromInnerArmsByPosition(t) ==
  LET flags == Flags(t) IN
  [ k \in DOMAIN flags |-> [ value |-> k - 1, name |-> flags[k].name ] ]

\* NamedOpargType.trait_try_from_inner: the arms "value => Self::Name", in
\* the order of the iteration; the arm after them returns Err(ERR).
TraitTryFromInnerArms(t) ==
  LET flags == Flags(t) IN
  [ k \in DOMAIN flags |-> [ value |-> flags[k].value, name |-> flags[k].name ] ]

\* `variant as u32` for a variant of the generated #[repr(u32)] enum.
Encode(t, name) ==
  LET def == RustDef(t)
      k == CHOOSE k \in DOMAIN def : def[k].name = name
  IN  def[k].value

Ok(name) == [ called |-> TRUE, ok |-> TRUE, variant |-> name, err |-> "" ]
Err(e) == [ called |-> TRUE, ok |-> FALSE, variant |-> "", err |-> e ]
NotCalled == [ called |-> FALSE, ok |-> FALSE, variant |-> "", err |-> "" ]

\* The generated TryFrom<u32>::try_from: a Rust match takes the first arm
\* whose pattern equals the value.
TryFromInner(t, value) ==
  LET arms == TraitTryFromInnerArms(t)
      hit == { k \in DOMAIN arms : arms[k].value = value }
  IN  IF hit = {} THEN Err(ERR)
      ELSE Ok(arms[CHOOSE k \in hit : \A j \in hit : k <= j].name)

\* v >> n on a u32, and v << n where it does not leave the u32 (the operands
\* of the model stay far below 2^32).
ShiftRight(v, n) == v \div (2 ^ n)
ShiftLeft(v, n) == v * (2 ^ n)

\* A slip in trait_try_from_compare: the shift one bit short.
TryFromCompareShiftFour(value) == TryFromInner("CmpOp", ShiftRight(value, 4))

\* CmpOp.trait_try_from_compare, the generated TryFrom<CompareOparg> for
\* CmpOpOparg: Self::try_from(u32::from(value) >> 5); `value` is the u32 the
\* CompareOparg holds.
TryFromCompare(value) == TryFromInner("CmpOp", ShiftRight(value, 5))

\* The largest u32 the model hands to a conversion.
MaxRaw == 27

\* A caller converts a raw operand: <Type>::try_from(raw).
CallTryFrom ==
  /\ ~result.called
  /\ result' = TryFromInner(typ, raw)
  /\ UNCHANGED << offset, inner, analysis, definitions, z_rs, pc, real_code, pseudo_code, lookups,
                  error, out, typ, raw >>

\* The largest operand of COMPARE_OP the model hands to the conversion: every
\* variant of CmpOp shifted, with every low five bits, and values beyond.
MaxCompare == 447

\* A caller converts the operand of a comparison: CompareOparg::cmp_op(),
\* which is CmpOpOparg::try_from(self).
CallCmpOp ==
  /\ ~result.called
  /\ typ = "CmpOp"
  /\ result' = TryFromCompare(raw)
  /\ UNCHANGED << offset, inner, analysis, definitions, z_rs, pc, real_code, pseudo_code, lookups,
                  error, out, typ, raw >>

\* ------------------------------------------------------------------------
\* The inputs of a run: the analysis the analyzer hands to main()
\* ------------------------------------------------------------------------

NoArg == Properties(FALSE, FALSE, FALSE, FALSE, FALSE, FALSE, FALSE)
RawArg == Properties(TRUE, FALSE, FALSE, FALSE, FALSE, FALSE, FALSE)
JumpArg == Properties(TRUE, TRUE, FALSE, FALSE, FALSE, FALSE, FALSE)

ConstArg == Properties(TRUE, FALSE, TRUE, FALSE, FALSE, FALSE, FALSE)
NameArg == Properties(TRUE, FALSE, FALSE, TRUE, FALSE, FALSE, FALSE)
LocalArg == Properties(TRUE, FALSE, FALSE, FALSE, TRUE, FALSE, FALSE)
FreeArg == Properties(TRUE, FALSE, FALSE, FALSE, FALSE, TRUE, FALSE)
PureNoArg == Properties(FALSE, FALSE, FALSE, FALSE, FALSE, FALSE, TRUE)

PropertyChoices == { NoArg, RawArg }
AllPropertyChoices ==
  { NoArg, RawArg, JumpArg, ConstArg, NameArg, LocalArg, FreeArg, PureNoArg }
RealNames == { A, A_FAST, B }
PseudoNames == { JUMP, POP_BLOCK }
FamilyChoices == { None } \cup RealNames

\* The opcodes the analyzer's opmap is drawn from.
MaxOpcode == 3
OpcodeChoices == 1..MaxOpcode

\* Every dict name -> instruction over a subset of the names.
InstructionDicts(names, properties, families) ==
  UNION { { [ n \in S |-> Instruction(n, f[n].properties, f[n].family) ] :
              f \in [ S -> [ properties : properties, family : families ] ] } :
          S \in SUBSET names }

\* The number of values of opcode_size: "u8" for RealInstructions, "u16" for
\* PseudoInstructions.
OpcodeLimit(opcode_size) == IF opcode_size = "u8" THEN 2 ^ 8 ELSE 2 ^ 16

\* An opmap as CPython's analyzer gives it: every name an opcode of its own,
\* the instructions from 1 on, the pseudo instructions from 256 on.
DefaultOpmap ==
  LET reals == SortedNames(RealNames \cup { INSTRUMENTED_LINE })
      pseudos == SortedNames(PseudoNames)
  IN  Dict([ n \in RealNames \cup PseudoNames \cup { INSTRUMENTED_LINE } |->
               IF n \in PseudoNames
               THEN OpcodeLimit("u8") - 1 + CHOOSE i \in DOMAIN pseudos : pseudos[i] = n
               ELSE CHOOSE i \in DOMAIN reals : reals[i] = n ])

\* The opcodes the opmap gives the pseudo instructions of the model.
PseudoOpcodeChoices == { MaxOpcode } \cup { DefaultOpmap[n] : n \in PseudoNames }

\* A family as CPython declares them: A_FAST specializes A.
DefaultInstructions ==
  [ n \in RealNames |->
      Instruction(n, IF n = B THEN NoArg ELSE RawArg, IF n = A_FAST THEN A ELSE None) ]

DefaultPseudos == [ n \in { JUMP } |-> Instruction(n, JumpArg, None) ]

Restrict(f, S) == [ x \in S |-> f[x] ]

Range(f) == { f[x] : x \in DOMAIN f }

\* Any family references and operand shapes, every opcode distinct.
InputsFamilies ==
  { [ instructions |-> d, pseudos |-> DefaultPseudos, opmap |-> DefaultOpmap ] :
      d \in InstructionDicts(RealNames, PropertyChoices, FamilyChoices) }

\* Any opcodes, the default family.
InputsOpcodes ==
  UNION { { [ instructions |-> Restrict(DefaultInstructions, S),
              pseudos |-> DefaultPseudos,
              opmap |-> m @@ Restrict(DefaultOpmap, PseudoNames) ] :
              m \in [ S \cup { INSTRUMENTED_LINE } -> OpcodeChoices ] } :
          S \in SUBSET RealNames }

\* Any pseudo instructions and their opcodes.
InputsPseudos ==
  UNION { { [ instructions |-> Restrict(DefaultInstructions, { A }),
              pseudos |-> d,
              opmap |-> [ n \in DOMAIN DefaultOpmap |->
                            IF n \in DOMAIN d THEN m[n] ELSE DefaultOpmap[n] ] ] :
              m \in [ DOMAIN d -> PseudoOpcodeChoices ] } :
          d \in InstructionDicts(PseudoNames, PropertyChoices \cup { JumpArg }, { None }) }

\* Any properties, families of one level.
InputsProperties ==
  { [ instructions |-> d, pseudos |-> DefaultPseudos, opmap |-> DefaultOpmap ] :
      d \in InstructionDicts({ A, B }, AllPropertyChoices, { None, A }) }

\* The names Oparg.try_from_instruction gives a type of their own.
SpecificNames ==
  { BINARY_OP, RESUME, RAISE_VARARGS, CALL_INTRINSIC_1, CALL_INTRINSIC_2, UNPACK_EX }

\* Properties with several of the flags try_from_instruction reads.
JumpConstNameArg == Properties(TRUE, TRUE, TRUE, TRUE, FALSE, FALSE, FALSE)
ConstNameArg == Properties(TRUE, FALSE, TRUE, TRUE, FALSE, FALSE, FALSE)
NoArgJump == Properties(FALSE, TRUE, TRUE, TRUE, FALSE, FALSE, FALSE)

\* One instruction, of any name try_from_instruction tells apart, with any
\* properties.
InputsSpecific ==
  { [ instructions |-> (n :> Instruction(n, p, None)),
      pseudos |-> DefaultPseudos,
      opmap |-> (n :> 1) @@ (INSTRUMENTED_LINE :> 2) @@ Restrict(DefaultOpmap, PseudoNames) ] :
      n \in SpecificNames \cup { A },
      p \in AllPropertyChoices \cup { JumpConstNameArg, ConstNameArg, NoArgJump } }

\* Analyses whose opmap may lack the name of an instruction.
InputsOpmaps ==
  { [ instructions |-> an.instructions, pseudos |-> an.pseudos,
      opmap |-> Restrict(an.opmap, DOMAIN an.opmap \ missing) ] :
      an \in InputsProperties, missing \in { {}, { B }, { JUMP } } }

\* The largest number of items an instruction of the model pops or pushes.
MaxStack == 1

\* Any stack effect for A, with or without an entry for A in the declarative
\* table that overrides it.
InputsStack ==
  { [ instructions |->
        [ DefaultInstructions EXCEPT
            ![A] = WithStack(@, StackEffect(popped, pushed, raises)),
            ![B] = WithStack(@, StackEffect(1, 1, FALSE)) ],
      pseudos |-> DefaultPseudos,
      opmap |-> DefaultOpmap ] :
      popped \in 0..MaxStack, pushed \in 0..MaxStack, raises \in BOOLEAN }

StackOverrides ==
  { << >> } \cup
  { << [ cpython_name |-> A, opcode |-> DefaultOpmap[A],
         stack_effect |-> [ popped |-> popped, pushed |-> pushed ] ] >> :
      popped \in 0..MaxStack, pushed \in 0..MaxStack }

\* A declarative table with one definition flagged as a placeholder: for an
\* instruction the analysis knows (A), or for one it does not (RESUME).
Placeholders ==
  { << [ cpython_name |-> n, opcode |-> MaxOpcode, placeholder |-> TRUE ] >> :
      n \in { A, RESUME } }

\* The sequences that hold every element of a set once.
Perms(S) ==
  { p \in [ 1..Cardinality(S) -> S ] : \A i, j \in DOMAIN p : p[i] = p[j] => i = j }

Reverse(seq) == [ i \in DOMAIN seq |-> seq[Len(seq) + 1 - i] ]

\* The analysis with the order in which its two dicts were filled.
WithOrder(an, order) ==
  [ instructions |-> an.instructions, pseudos |-> an.pseudos, opmap |-> an.opmap,
    order |-> order ]

\* The dicts filled from the last name to the first.
LastFirst(an) ==
  [ instructions |-> Reverse(SortedNames(DOMAIN an.instructions)),
    pseudos |-> Reverse(SortedNames(DOMAIN an.pseudos)) ]

\* Every order in which the dicts of an analysis can have been filled.
Orders(an) ==
  { [ instructions |-> i, pseudos |-> p ] :
      i \in Perms(DOMAIN an.instructions), p \in Perms(DOMAIN an.pseudos) }

\* The default instructions and both pseudo instructions.
DefaultAnalysis ==
  [ instructions |-> DefaultInstructions,
    pseudos |-> [ n \in PseudoNames |-> Instruction(n, JumpArg, None) ],
    opmap |-> DefaultOpmap ]

Init ==
  /\ \/ /\ \E an \in InputsFamilies \cup InputsOpcodes \cup InputsPseudos
                         \cup InputsProperties \cup InputsOpmaps \cup InputsSpecific :
              analysis = WithOrder(an, LastFirst(an))
        /\ definitions = << >>
     \/ /\ \E an \in InputsStack : analysis = WithOrder(an, LastFirst(an))
        /\ definitions \in StackOverrides \cup Placeholders
     \/ /\ \E order \in Orders(DefaultAnalysis) :
              analysis = WithOrder(DefaultAnalysis, order)
        /\ definitions = << >>
  /\ z_rs = << >>
  /\ pc = "start"
  /\ real_code = NotEvaluated
  /\ pseudo_code = NotEvaluated
  /\ lookups = << >>
  /\ error = "none"
  /\ out = NotWritten
  /\ typ = "CmpOp"
  /\ raw = 0
  /\ result = NotCalled
  /\ offset = EmptyOffset
  /\ inner = NoEnum

Next ==
  \/ RealRustCode
  \/ PseudoRustCode
  \/ Rustfmt
  \/ RustfmtRaises
  \/ WriteText

\* A run of generate.py on any input of the model.
Spec == Init /\ [][Next]_vars

\* The generated conversions of the oparg types, called on any raw value.
InitOparg ==
  /\ analysis = WithOrder(DefaultAnalysis, LastFirst(DefaultAnalysis))
  /\ definitions = << >>
  /\ z_rs = << >>
  /\ pc = "start"
  /\ real_code = NotEvaluated
  /\ pseudo_code = NotEvaluated
  /\ lookups = << >>
  /\ error = "none"
  /\ out = NotWritten
  /\ typ \in NamedTypes
  /\ raw \in 0..MaxRaw
  /\ result = NotCalled
  /\ offset = EmptyOffset
  /\ inner = NoEnum

NextOparg == CallTryFrom

SpecOparg == InitOparg /\ [][NextOparg]_vars

\* The conversion of the comparison operand, called on any u32.
InitCompare ==
  /\ analysis = WithOrder(DefaultAnalysis, LastFirst(DefaultAnalysis))
  /\ definitions = << >>
  /\ z_rs = << >>
  /\ pc = "start"
  /\ real_code = NotEvaluated
  /\ pseudo_code = NotEvaluated
  /\ lookups = << >>
  /\ error = "none"
  /\ out = NotWritten
  /\ typ = "CmpOp"
  /\ raw \in 0..MaxCompare
  /\ result = NotCalled
  /\ offset = EmptyOffset
  /\ inner = NoEnum

NextCompare == CallCmpOp

SpecCompare == InitCompare /\ [][NextCompare]_vars

\* ------------------------------------------------------------------------
\* scripts/gen_opcodes.py: main(), as a state machine
\* ------------------------------------------------------------------------

\* rust_code of scripts/gen_opcodes.py: the payload and the pattern of a case
\* come from the instruction's own properties; the functions are the
\* attributes named fn_*, which are the has_* functions only.
GenOpcodesCode(insts, opmap) ==
  [ evaluated |-> TRUE,
    enum_variants |->
      [ i \in DOMAIN insts |->
          [ name |-> InstName(insts[i]),
            oparg |-> TryFromInstruction(insts[i]),
            opcode |-> opmap[insts[i].name] ] ],
    fn_deopt |-> {},
    fn_has |->
      [ fn \in DOMAIN HasAttrFns |->
          { [ name |-> InstName(insts[i]), payload |-> insts[i].properties.oparg ] :
              i \in { j \in DOMAIN insts : insts[j].properties[HasAttrFns[fn]] } } ],
    fn_num_popped |-> {},
    fn_num_pushed |-> {} ]

\* The exception the loop of rust_code ends with, or "none".
GenOpcodesError(insts, opmap) ==
  IF \E i \in DOMAIN insts : insts[i].name \notin DOMAIN opmap THEN "KeyError"
  ELSE "none"

\* The f-string of main: real_instructions.rust_code, then
\* pseudo_instructions.rust_code.
GenOpcodesRustCode ==
  /\ pc = "start"
  /\ LET real == GenOpcodesError(RealIter(analysis), analysis.opmap)
         pseudo == GenOpcodesError(PseudoIter(analysis), analysis.opmap)
     IN  IF real = "none" /\ pseudo = "none"
         THEN /\ real_code' = GenOpcodesCode(RealIter(analysis), analysis.opmap)
              /\ pseudo_code' = GenOpcodesCode(PseudoIter(analysis), analysis.opmap)
              /\ pc' = "pseudo"
              /\ error' = error
         ELSE /\ real_code' = IF real = "none"
                              THEN GenOpcodesCode(RealIter(analysis), analysis.opmap)
                              ELSE real_code
              /\ pseudo_code' = pseudo_code
              /\ pc' = "failed"
              /\ error' = IF real = "none" THEN pseudo ELSE real
  /\ UNCHANGED << offset, inner, analysis, definitions, z_rs, lookups, out, typ, raw, result >>

\* OUT_PATH.write_text(out): the text as built, before any formatting.
GenOpcodesWriteText ==
  /\ pc = "pseudo"
  /\ out' = [ written |-> TRUE, real |-> real_code, pseudo |-> pseudo_code ]
  /\ pc' = "written"
  /\ UNCHANGED << offset, inner, analysis, definitions, z_rs, real_code, pseudo_code, lookups, error,
                  typ, raw, result >>

\* What subprocess.run(["cargo", "fmt"], cwd=ROOT) can do.
CargoFmtOutcomes == { "formatted", "exit status 1", "FileNotFoundError" }

\* subprocess.run(["cargo", "fmt"], cwd=ROOT), no check=True: cargo formats
\* the written file in place, or exits with an error that run() returns and
\* main ignores ("unformatted"), or cannot be started and run() raises.
CargoFmt ==
  /\ pc = "written"
  /\ \E outcome \in CargoFmtOutcomes :
        /\ pc' = CASE outcome = "formatted" -> "done"
                   [] outcome = "exit status 1" -> "unformatted"
                   [] OTHER -> "failed"
        /\ error' = IF outcome = "FileNotFoundError" THEN outcome ELSE error
  /\ UNCHANGED << offset, inner, analysis, definitions, z_rs, real_code, pseudo_code, lookups, out,
                  typ, raw, result >>

InitGenOpcodes ==
  /\ \E an \in InputsOpmaps : analysis = WithOrder(an, LastFirst(an))
  /\ definitions = << >>
  /\ z_rs = << >>
  /\ pc = "start"
  /\ real_code = NotEvaluated
  /\ pseudo_code = NotEvaluated
  /\ lookups = << >>
  /\ error = "none"
  /\ out = NotWritten
  /\ typ = "none"
  /\ raw = 0
  /\ result = NotCalled
  /\ offset = EmptyOffset
  /\ inner = NoEnum

NextGenOpcodes ==
  \/ GenOpcodesRustCode
  \/ GenOpcodesWriteText
  \/ CargoFmt

\* A run of scripts/gen_opcodes.py on any input of the model.
SpecGenOpcodes == InitGenOpcodes /\ [][NextGenOpcodes]_vars

\* ------------------------------------------------------------------------
\* What the generated Rust computes
\* ------------------------------------------------------------------------

\* `case as u8` / `as u16`: the discriminant "Name = opcode" rust_code gives
\* the k-th variant of the enum.
ToOpcode(enum_variants, k) == enum_variants[k].opcode

\* The numeric injection opcode -> case, which the generators do not emit:
\* the position of the case whose discriminant is the value (the first one
\* declared, as a match would take it), 0 for InvalidBytecode.
FromOpcode(enum_variants, value) ==
  LET hit == { k \in DOMAIN enum_variants : enum_variants[k].opcode = value } IN
  IF hit = {} THEN 0 ELSE CHOOSE k \in hit : \A j \in hit : k <= j

\* The generated `deopt(self) -> Option<Self>`: the right side of the arm
\* whose left side is the case, None through the arm `_ => return None`.
Deopt(fn_deopt, name) ==
  IF \E arm \in fn_deopt : arm.left.name = name
  THEN (CHOOSE arm \in fn_deopt : arm.left.name = name).right.name
  ELSE None

\* The generated `has_<fn>(self) -> bool`: matches!(self, arms), or false.
Has(fn_has, fn, name) == \E arm \in fn_has[fn] : arm.name = name

\* The generated `num_popped(self, oparg)` / `num_pushed(self, oparg)`: the
\* expression of the arm that matches the case.
NumEffect(fn_num, name) == (CHOOSE a \in fn_num : a.arm.name = name).expr

\* The generated case carries a payload: its variant is "Name(OpargType<..>)".
HasPayload(enum_variants, k) == enum_variants[k].oparg # "None"

\* ------------------------------------------------------------------------
\* Oparg types: claims C2, C3
\* ------------------------------------------------------------------------

\* The raw value is the encoding of a variant of the type.
IsDeclaredEncoding(t, value) ==
  \E k \in DOMAIN RustDef(t) : RustDef(t)[k].value = value

\* C2: for every named operand type and every variant it declares, decoding
\* the variant's numeric encoding with the type's try_from yields that same
\* variant, also where the values are explicit, non-contiguous or bitwise
\* combinations (CmpOp, BuildSlice, SetFunctionAttribute).
C2_DecodeOfEncodeIsVariant ==
  result.called =>
    \A k \in DOMAIN RustDef(typ) :
       raw = Encode(typ, RustDef(typ)[k].name) => result = Ok(RustDef(typ)[k].name)

\* C2, witness: CmpOp::try_from(10) has returned Le, whose value is the
\* combination LessThan | Equals.
C2_Witness ==
  /\ typ = "CmpOp"
  /\ raw = BitOr(Cmp("LessThan"), Cmp("Equals"))
  /\ result = Ok("Le")

\* C3 as the spec states it: a raw value that is no declared encoding of the
\* type is refused with InvalidOperand, a failure other than InvalidBytecode.
C3_UndeclaredRawIsInvalidOperand ==
  (result.called /\ ~IsDeclaredEncoding(typ, raw)) =>
    (~result.ok /\ result.err = "InvalidOperand" /\ result.err # "InvalidBytecode")

\* ------------------------------------------------------------------------
\* Instruction sets: claims C1, C4, C5
\* ------------------------------------------------------------------------

\* Two instructions of the iteration are given the same opcode by the opmap.
HasDuplicateOpcode(insts, opmap) ==
  \E i, j \in DOMAIN insts :
     /\ i # j
     /\ insts[i].name \in DOMAIN opmap
     /\ insts[j].name \in DOMAIN opmap
     /\ opmap[insts[i].name] = opmap[insts[j].name]

\* The two enums main() interpolates, once evaluated.
EvaluatedEnums ==
  { code.enum_variants : code \in { c \in { real_code, pseudo_code } : c.evaluated } }

\* C1 as the spec states it: in every enum the run has produced,
\* from_opcode(to_opcode(case)) is the case, and to_opcode(from_opcode(v)) is
\* v for every value from_opcode accepts.
C1_OpcodeRoundTrip ==
  \A enum \in EvaluatedEnums :
     /\ \A k \in DOMAIN enum : FromOpcode(enum, ToOpcode(enum, k)) = k
     /\ \A v \in OpcodeChoices \cup Range(DefaultOpmap) :
          FromOpcode(enum, v) # 0 => ToOpcode(enum, FromOpcode(enum, v)) = v

\* C4 as the spec states it: in every enum the run has produced, no two
\* variants have the same discriminant.
C4_OpcodesDistinctWithinSet ==
  \A enum \in EvaluatedEnums :
     \A i, j \in DOMAIN enum : enum[i].opcode = enum[j].opcode => i = j

\* C5 as the spec states it: when two instructions of one set are given the
\* same opcode, no enum is produced for the set, nothing is written, and the
\* run ends with DuplicateOpcode.
C5_DuplicateOpcodeFails ==
  /\ HasDuplicateOpcode(RealIter(analysis), analysis.opmap) =>
       /\ ~real_code.evaluated
       /\ ~out.written
       /\ pc \in { "start", "failed" }
       /\ pc = "failed" => error = "DuplicateOpcode"
  /\ HasDuplicateOpcode(PseudoIter(analysis), analysis.opmap) =>
       /\ ~pseudo_code.evaluated
       /\ ~out.written
       /\ pc \in { "start", "real", "failed" }
       /\ pc = "failed" => error = "DuplicateOpcode"

\* ------------------------------------------------------------------------
\* Deoptimization: claims C6 .. C10
\* ------------------------------------------------------------------------

\* The deopt target of a case by the generated function: the case itself
\* where the function answers None.
DeoptTarget(fn_deopt, name) ==
  IF Deopt(fn_deopt, name) = None THEN name ELSE Deopt(fn_deopt, name)

\* The name reached from an instruction by following `family` k times; None
\* when the chain has ended or leaves the set before that.
RECURSIVE FamilyAfter(_, _, _)
FamilyAfter(dict, name, k) ==
  IF name = None \/ name \notin DOMAIN dict THEN None
  ELSE IF k = 0 THEN name
  ELSE FamilyAfter(dict, dict[name].family, k - 1)

\* The family-less instruction at the end of the chain of families, None
\* when the chain leaves the set or does not end within the set's size.
RECURSIVE FamilyRoot(_, _, _)
FamilyRoot(dict, name, fuel) ==
  IF name = None \/ name \notin DOMAIN dict THEN None
  ELSE IF dict[name].family = None THEN name
  ELSE IF fuel = 0 THEN None
  ELSE FamilyRoot(dict, dict[name].family, fuel - 1)

\* An instruction reappears along its chain of families, through at least
\* one other instruction.
HasFamilyCycle(dict) ==
  \E name \in DOMAIN dict :
     /\ FamilyAfter(dict, name, 1) # name
     /\ \E k \in 2..Cardinality(DOMAIN dict) : FamilyAfter(dict, name, k) = name

\* A specialized instruction and the family it names differ in whether they
\* carry an operand.
HasShapeMismatch(dict) ==
  \E name \in DOMAIN dict :
     LET family == dict[name].family IN
     /\ family # None
     /\ family # name
     /\ family \in DOMAIN dict
     /\ dict[name].properties.oparg # dict[family].properties.oparg

\* C6 as the spec states it: the deopt target of an instruction is itself
\* when it has no family, and otherwise the deopt target of its family,
\* resolved through the families down to a family-less instruction.
C6_DeoptResolvesThroughFamilies ==
  real_code.evaluated =>
    \A name \in DOMAIN analysis.instructions :
       LET dict == analysis.instructions
           root == FamilyRoot(dict, name, Cardinality(DOMAIN dict))
       IN  root # None =>
             DeoptTarget(real_code.fn_deopt, InstName(dict[name])) = InstName(dict[root])

\* C7 as the spec states it: the deopt target of the deopt target of a case
\* is the deopt target of the case.
C7_DeoptIdempotent ==
  real_code.evaluated =>
    \A k \in DOMAIN real_code.enum_variants :
       LET target == DeoptTarget(real_code.fn_deopt, real_code.enum_variants[k].name) IN
       DeoptTarget(real_code.fn_deopt, target) = target

\* C8 as the spec states it: when an instruction reappears along its chain
\* of families, the run fails with CyclicDeoptChain and produces no deopt
\* function.
C8_CycleRaisesCyclicDeoptChain ==
  (HasFamilyCycle(analysis.instructions) /\ pc # "start") =>
    /\ pc = "failed"
    /\ error = "CyclicDeoptChain"
    /\ ~real_code.evaluated

\* C9 as the spec states it: a lookup that follows families stops within as
\* many steps as the set has instructions and visits none of them twice.
C9_LookupVisitsEachInstructionOnce ==
  \A i \in DOMAIN lookups :
     /\ Len(lookups[i]) <= Len(RealIter(analysis))
     /\ \A j, k \in DOMAIN lookups[i] : lookups[i][j] = lookups[i][k] => j = k

\* C10 as the spec states it: when a specialized instruction and its deopt
\* target differ in operand shape, the run fails with OpargShapeMismatch and
\* the enum is not produced.
C10_ShapeMismatchFails ==
  (HasShapeMismatch(analysis.instructions) /\ pc # "start") =>
    /\ pc = "failed"
    /\ error = "OpargShapeMismatch"
    /\ ~real_code.evaluated

\* ------------------------------------------------------------------------
\* Derived predicates: claims C11, C12
\* ------------------------------------------------------------------------

\* The enums the run has produced, each with the instructions it iterated.
EvaluatedSets ==
  { set \in { [ code |-> real_code, insts |-> RealIter(analysis) ],
              [ code |-> pseudo_code, insts |-> PseudoIter(analysis) ] } :
      set.code.evaluated }

\* C11 as the spec states it: has_arg(case) is true exactly when the case's
\* definition declares an operand, which is exactly when the generated case
\* carries a payload.
C11_HasArgIffOperandIffPayload ==
  \A set \in EvaluatedSets :
     \A k \in DOMAIN set.insts :
        LET has_arg == Has(set.code.fn_has, "arg", set.code.enum_variants[k].name) IN
        /\ has_arg <=> set.insts[k].properties.oparg
        /\ has_arg <=> HasPayload(set.code.enum_variants, k)

\* C12: every generated predicate has_<fn> is true for a case exactly when
\* the property it is built from is set on the case's instruction; when the
\* property is set on no instruction of the set its body is "false", and the
\* enum is produced all the same.
C12_PredicateIsDeclaredProperty ==
  \A set \in EvaluatedSets :
     \A fn \in DOMAIN HasAttrFns :
        /\ \A k \in DOMAIN set.insts :
              Has(set.code.fn_has, fn, set.code.enum_variants[k].name)
                <=> set.insts[k].properties[HasAttrFns[fn]]
        /\ (\A k \in DOMAIN set.insts : ~set.insts[k].properties[HasAttrFns[fn]])
              => set.code.fn_has[fn] = {}

\* C12, witness: an enum produced with has_const true for A alone, and
\* has_free with no arm at all.
C12_Witness ==
  /\ real_code.evaluated
  /\ { A, B } \subseteq DOMAIN analysis.instructions
  /\ Has(real_code.fn_has, "const", InstName(analysis.instructions[A]))
  /\ ~Has(real_code.fn_has, "const", InstName(analysis.instructions[B]))
  /\ real_code.fn_has["free"] = {}

\* ------------------------------------------------------------------------
\* The comparison operand: claim C13
\* ------------------------------------------------------------------------

\* C13: the conversion of a comparison operand r returns what CmpOp's
\* try_from returns for r >> 5: for every variant v of CmpOp and every low
\* five bits b, (encoding(v) << 5) | b converts to v, and r fails when r >> 5
\* is no declared encoding of CmpOp.
C13_CompareDecodesShiftedCmpOp ==
  result.called =>
    /\ \A k \in DOMAIN RustDef("CmpOp") : \A b \in 0..31 :
          raw = BitOr(ShiftLeft(RustDef("CmpOp")[k].value, 5), b)
            => result = Ok(RustDef("CmpOp")[k].name)
    /\ ~IsDeclaredEncoding("CmpOp", ShiftRight(raw, 5)) => result = Err(ERR)

\* C13, witness: encoding(Lt) << 5 has been converted to Lt.
C13_Witness ==
  /\ raw = ShiftLeft(Encode("CmpOp", "Lt"), 5)
  /\ result = Ok("Lt")

\* ------------------------------------------------------------------------
\* Stack effects: claim C14
\* ------------------------------------------------------------------------

\* C14 as the spec states it: for an instruction whose definition in the
\* declarative table carries a stack-effect override, the generated
\* num_popped and num_pushed give the override, not what the property source
\* gives.
C14_OverrideTakesPrecedence ==
  real_code.evaluated =>
    \A i \in DOMAIN definitions :
       "stack_effect" \in DOMAIN definitions[i] =>
         LET name == RemoveUnderscores(Title(definitions[i].cpython_name)) IN
         /\ NumEffect(real_code.fn_num_popped, name) = definitions[i].stack_effect.popped
         /\ NumEffect(real_code.fn_num_pushed, name) = definitions[i].stack_effect.pushed

\* ------------------------------------------------------------------------
\* The cases of the enums: claim C15
\* ------------------------------------------------------------------------

\* C15 as the spec states it: a case of a produced enum has no payload
\* exactly when its definition declares no operand, and otherwise carries the
\* operand type resolved for that definition.
C15_PayloadIsDeclaredOperand ==
  \A set \in EvaluatedSets :
     \A k \in DOMAIN set.insts :
        /\ HasPayload(set.code.enum_variants, k) <=> set.insts[k].properties.oparg
        /\ HasPayload(set.code.enum_variants, k) =>
             set.code.enum_variants[k].oparg = TryFromInstruction(set.insts[k])

\* ------------------------------------------------------------------------
\* The order of the iteration: claims C16 and C18
\* ------------------------------------------------------------------------

\* The variants of a produced enum are the instructions of the iteration, one
\* for one and in its order.
VariantsFollow(set) ==
  /\ Len(set.code.enum_variants) = Len(set.insts)
  /\ \A k \in DOMAIN set.insts :
        /\ set.code.enum_variants[k].name = InstName(set.insts[k])
        /\ set.code.enum_variants[k].opcode = analysis.opmap[set.insts[k].name]

C18_SameModelInAnyInsertionOrder ==
  \A order \in Orders(analysis) :
     /\ real_code.evaluated => real_code = RealCode(WithOrder(analysis, order))
     /\ pseudo_code.evaluated => pseudo_code = PseudoCode(WithOrder(analysis, order))

\* Both enums were produced from dicts of several instructions, neither of
\* them filled in the order of the names.
C18_Witness ==
  /\ real_code.evaluated
  /\ pseudo_code.evaluated
  /\ Cardinality(DOMAIN analysis.instructions) > 2
  /\ Cardinality(DOMAIN analysis.pseudos) > 1
  /\ analysis.order.instructions # SortedNames(DOMAIN analysis.instructions)
  /\ analysis.order.pseudos # SortedNames(DOMAIN analysis.pseudos)

\* ------------------------------------------------------------------------
\* The two ranges of opcodes: claim C17
\* ------------------------------------------------------------------------

\* C17 as the spec states it: the opcode of every instruction of the real
\* set is below the boundary (it fits one byte), the opcode of every
\* instruction of the pseudo set is not, and no instruction is in both sets.
C17_SetsSplitAtBoundary ==
  /\ real_code.evaluated =>
        \A k \in DOMAIN real_code.enum_variants :
           real_code.enum_variants[k].opcode < OpcodeLimit("u8")
  /\ pseudo_code.evaluated =>
        \A k \in DOMAIN pseudo_code.enum_variants :
           pseudo_code.enum_variants[k].opcode >= OpcodeLimit("u8")
  /\ real_code.evaluated /\ pseudo_code.evaluated =>
        \A i \in DOMAIN real_code.enum_variants, j \in DOMAIN pseudo_code.enum_variants :
           real_code.enum_variants[i].name # pseudo_code.enum_variants[j].name

\* ------------------------------------------------------------------------
\* z.py: the definition records printed from the entries of z.rs
\* ------------------------------------------------------------------------

\* \w of the regular expressions.
IsWordChar(c) == c \in { Ascii[i] : i \in DOMAIN Ascii }

\* The places where pat occurs in s.
Occurrences(s, pat) ==
  { i \in 1..(Len(s) - Len(pat) + 1) : SubSeq(s, i, i + Len(pat) - 1) = pat }

Least(S) == CHOOSE x \in S : \A y \in S : x <= y
Greatest(S) == CHOOSE x \in S : \A y \in S : y <= x

\* re.findall(r"Arg<(.*)>", entry): the groups of the matches; the model keeps
\* the first one, the only one the script reads.  The match starts at the
\* first "Arg<" that a ">" follows, and the greedy group ends before the last
\* ">" of the entry.
FindallType(entry) ==
  LET open == << "A", "r", "g", "<" >>
      close == Occurrences(entry, << ">" >>)
      starts == { i \in Occurrences(entry, open) : \E j \in close : j >= i + Len(open) }
  IN  IF starts = {} THEN << >>
      ELSE << SubSeq(entry, Least(starts) + Len(open), Greatest(close) - 1) >>

\* re.findall(r"(\w+): Arg<(.*)>", entry), likewise: the match starts at the
\* beginning of the first run of word characters that ": Arg<" and, later,
\* a ">" follow.
FindallNameType(entry) ==
  LET open == << ":", " ", "A", "r", "g", "<" >>
      close == Occurrences(entry, << ">" >>)
      colons == { c \in Occurrences(entry, open) :
                    /\ c > 1
                    /\ IsWordChar(entry[c - 1])
                    /\ \E j \in close : j >= c + Len(open) }
  IN  IF colons = {} THEN << >>
      ELSE LET c == Least(colons)
               p == Least({ i \in 1..(c - 1) : \A k \in i..(c - 1) : IsWordChar(entry[k]) })
           IN  << [ oparg_name |-> SubSeq(entry, p, c - 1),
                    oparg_type |-> SubSeq(entry, c + Len(open), Greatest(close) - 1) ] >>

\* entry.split("(")[0].split(): the words before the first "(".
RECURSIVE Split(_)
Split(s) ==
  IF s = << >> THEN << >>
  ELSE IF Head(s) = " " THEN Split(Tail(s))
  ELSE LET ends == { i \in 1..Len(s) : s[i] = " " }
           n == IF ends = {} THEN Len(s) ELSE Least(ends) - 1
       IN  << SubSeq(s, 1, n) >> \o Split(SubSeq(s, n + 1, Len(s)))

BeforeParen(entry) ==
  LET parens == Occurrences(entry, << "(" >>) IN
  IF parens = {} THEN entry ELSE SubSeq(entry, 1, Least(parens) - 1)

\* to_snake: "_" put before every upper-case letter but the first character,
\* then str.upper().
RECURSIVE ToSnakeFrom(_, _)
ToSnakeFrom(s, i) ==
  IF i > Len(s) THEN << >>
  ELSE (IF i > 1 /\ IsUpper(s[i]) THEN << "_" >> ELSE << >>)
         \o << ToUpper(s[i]) >> \o ToSnakeFrom(s, i + 1)

ToSnake(s) == ToSnakeFrom(s, 1)

\* Lines 28 to 33: oparg_name and oparg_type of an entry, each << >> for
\* None and << s >> for the string s; "raises" when [0] finds no match.
ZOparg(entry) ==
  IF "{" \in Range(entry)
  THEN LET found == FindallNameType(entry) IN
       IF found = << >> THEN [ raises |-> TRUE, oparg_name |-> << >>, oparg_type |-> << >> ]
       ELSE [ raises |-> FALSE, oparg_name |-> << found[1].oparg_name >>,
              oparg_type |-> << found[1].oparg_type >> ]
  ELSE IF "(" \in Range(entry)
  THEN LET found == FindallType(entry) IN
       IF found = << >> THEN [ raises |-> TRUE, oparg_name |-> << >>, oparg_type |-> << >> ]
       ELSE [ raises |-> FALSE, oparg_name |-> << >>, oparg_type |-> found ]
  ELSE [ raises |-> FALSE, oparg_name |-> << >>, oparg_type |-> << >> ]

\* The exception an entry raises, or "none".
ZError(e) ==
  IF ZOparg(e.entry).raises \/ Split(BeforeParen(e.entry)) = << >> THEN "IndexError"
  ELSE "none"

\* Python's truth of an optional string: neither None nor empty.
Truthy(opt) == opt # << >> /\ opt[1] # << >>

\* Lines 35 to 52: the record printed for an entry.
ZRecord(e) ==
  LET parsed == ZOparg(e.entry)
      name == Split(BeforeParen(e.entry))[1]
      u32 == << "u", "3", "2" >>
      oparg_type == IF parsed.oparg_type # << >> /\ parsed.oparg_type[1] # u32
                    THEN << << "o", "p", "a", "r", "g", ":", ":" >> \o parsed.oparg_type[1] >>
                    ELSE parsed.oparg_type
      oparg == IF Truthy(parsed.oparg_name) /\ Truthy(oparg_type)
               THEN [ name |-> parsed.oparg_name[1], type |-> oparg_type[1] ]
               ELSE IF Truthy(parsed.oparg_name) THEN [ name |-> parsed.oparg_name[1] ]
               ELSE IF Truthy(oparg_type) THEN [ type |-> oparg_type[1] ]
               ELSE << >>
  IN  [ name |-> name, opcode |-> e.opcode, cpython_name |-> ToSnake(name) ]
        @@ (IF e.placeholder THEN [ placeholder |-> TRUE ] ELSE << >>)
        @@ (IF oparg # << >> THEN [ oparg |-> oparg ] ELSE << >>)

\* The script, from the entries to print(output): nothing is printed when an
\* entry raises.
ZRun ==
  /\ pc = "start"
  /\ LET bad == { i \in DOMAIN z_rs : ZError(z_rs[i]) # "none" } IN
     IF bad = {}
     THEN /\ definitions' = [ i \in DOMAIN z_rs |-> ZRecord(z_rs[i]) ]
          /\ pc' = "done"
          /\ error' = error
     ELSE /\ definitions' = definitions
          /\ pc' = "failed"
          /\ error' = ZError(z_rs[Least(bad)])
  /\ UNCHANGED << offset, inner, analysis, z_rs, real_code, pseudo_code, lookups, out, typ, raw, result >>

\* The text of an entry before its "=": a variant without operand, with a
\* tuple operand, with a named operand, the operand's type being Arg<T>,
\* Arg<u32>, Arg<> or not wrapped in Arg at all.
ZEntryTexts ==
  LET arg(t) == << "A", "r", "g", "<" >> \o t \o << ">" >>
      T == << "T" >>
      u32 == << "u", "3", "2" >>
      AbC == << "A", "b", "C" >>
      named(t) == AbC \o << " ", "{", " ", "i", "x", ":", " " >> \o t \o << " ", "}", " " >>
      tuple(t) == AbC \o << "(" >> \o t \o << ")", " " >>
  IN  { AbC \o << " " >>,
        tuple(arg(T)), tuple(arg(u32)), tuple(u32),
        named(arg(T)), named(arg(u32)), named(arg(<< >>)), named(T) }

\* The longest z.rs of the model, in entries.
MaxEntries == 2

ZEntries == [ entry : ZEntryTexts, opcode : { 1 }, placeholder : BOOLEAN ]

InitZ ==
  /\ analysis = WithOrder(DefaultAnalysis, LastFirst(DefaultAnalysis))
  /\ definitions = << >>
  /\ z_rs \in UNION { [ 1..n -> ZEntries ] : n \in 1..MaxEntries }
  /\ pc = "start"
  /\ real_code = NotEvaluated
  /\ pseudo_code = NotEvaluated
  /\ lookups = << >>
  /\ error = "none"
  /\ out = NotWritten
  /\ typ = "none"
  /\ raw = 0
  /\ result = NotCalled
  /\ offset = EmptyOffset
  /\ inner = NoEnum

NextZ == ZRun

\* A run of z.py on any z.rs of the model.
SpecZ == InitZ /\ [][NextZ]_vars

\* ------------------------------------------------------------------------
\* _var_size: the size a stack item contributes, as a Rust expression
\* ------------------------------------------------------------------------

\* A stack item of CPython's analyzer: condition ("" when it has none) and
\* size, both C expressions over oparg.
StackItem(condition, size) == [ condition |-> condition, size |-> size ]

\* A slip in _var_size: the answers for the conditions "0" and "1" swapped.
VarSizeSwapped(var) ==
  IF var.condition # ""
  THEN IF var.condition = "1" THEN [ form |-> "text", text |-> "0" ]
       ELSE IF var.condition = "0" THEN [ form |-> "text", text |-> var.size ]
       ELSE IF var.condition = "oparg & 1" /\ var.size = "1"
            THEN [ form |-> "paren", text |-> var.condition ]
       ELSE [ form |-> "if", condition |-> var.condition, text |-> var.size ]
  ELSE [ form |-> "text", text |-> var.size ]

\* _var_size: "0", var.size, "(<condition>)" or
\* "(if <condition> { <size> } else { 0 })".
VarSize(var) ==
  IF var.condition # ""
  THEN IF var.condition = "0" THEN [ form |-> "text", text |-> "0" ]
       ELSE IF var.condition = "1" THEN [ form |-> "text", text |-> var.size ]
       ELSE IF var.condition = "oparg & 1" /\ var.size = "1"
            THEN [ form |-> "paren", text |-> var.condition ]
       ELSE [ form |-> "if", condition |-> var.condition, text |-> var.size ]
  ELSE [ form |-> "text", text |-> var.size ]

\* The value of an expression over oparg that C and Rust write alike; a
\* comparison gives a bool.
Value(text, oparg) ==
  CASE text = "0" -> 0
    [] text = "1" -> 1
    [] text = "2" -> 2
    [] text = "oparg" -> oparg
    [] text = "oparg & 1" -> oparg % 2
    [] text = "oparg == 3" -> (oparg = 3)

\* The value Rust gives the expression _var_size wrote: `if` takes a bool.
EvalRust(expr, oparg) ==
  CASE expr.form = "text" -> Value(expr.text, oparg)
    [] expr.form = "paren" -> Value(expr.text, oparg)
    [] expr.form = "if" ->
         IF Value(expr.condition, oparg) THEN Value(expr.text, oparg) ELSE 0

\* The largest number of sizes a StackOffset of the model holds in popped, and
\* in pushed.
MaxItems == 1

\* The largest operand the generated expressions are evaluated for.
MaxOparg == 7

\* The stack items of the model, as CPython's instruction definitions have
\* them: items without condition, items whose condition was folded to "0" or
\* "1", items guarded by a comparison, and a single item guarded by
\* `oparg & 1`.
StackItems ==
  { StackItem(c, size) : c \in { "", "0", "1", "oparg == 3" }, size \in { "1", "2", "oparg" } }
    \cup { StackItem("oparg & 1", "1") }

\* StackOffset.pop = lambda self, item: self.popped.append(_var_size(item))
StackOffsetPop ==
  /\ Len(offset.popped) < MaxItems
  /\ \E item \in StackItems :
        offset' = [ offset EXCEPT
                      !.popped = Append(@, [ item |-> item, size |-> VarSize(item) ]) ]
  /\ UNCHANGED << inner, analysis, definitions, z_rs, pc, real_code, pseudo_code, lookups,
                  error, out, typ, raw, result >>

\* StackOffset.push = lambda self, item: self.pushed.append(_var_size(item))
StackOffsetPush ==
  /\ Len(offset.pushed) < MaxItems
  /\ \E item \in StackItems :
        offset' = [ offset EXCEPT
                      !.pushed = Append(@, [ item |-> item, size |-> VarSize(item) ]) ]
  /\ UNCHANGED << inner, analysis, definitions, z_rs, pc, real_code, pseudo_code, lookups,
                  error, out, typ, raw, result >>

InitStack ==
  /\ analysis = WithOrder(DefaultAnalysis, LastFirst(DefaultAnalysis))
  /\ definitions = << >>
  /\ z_rs = << >>
  /\ pc = "start"
  /\ real_code = NotEvaluated
  /\ pseudo_code = NotEvaluated
  /\ lookups = << >>
  /\ error = "none"
  /\ out = NotWritten
  /\ typ = "none"
  /\ raw = 0
  /\ result = NotCalled
  /\ offset = EmptyOffset
  /\ inner = NoEnum

NextStack ==
  \/ StackOffsetPop
  \/ StackOffsetPush

\* get_stack_effect popping and pushing the items of an instruction.
SpecStack == InitStack /\ [][NextStack]_vars

\* ------------------------------------------------------------------------
\* opargs_generator.py: the body of a class Inner, one declaration at a time
\* ------------------------------------------------------------------------

\* The largest number of declarations of a class of the model that is not
\* one of the file's own, and the largest value one of them states.
MaxDecls == 3
MaxValue == 2

\* The bases a class Inner is declared with.
InnerKinds == { "IntEnum", "IntFlag" }

\* An empty class body under one of the bases.
EmptyInner(kind) == [ NoEnum EXCEPT !.kind = kind ]

\* A statement "Name = enum.auto()" or "Name = value" of the class body: the
\* value of auto() is what _generate_next_value_ returns for the number of
\* names declared so far and their values.  The IntFlag class of the file
\* declares every member with auto().
DeclareMember ==
  /\ inner.kind \in InnerKinds
  /\ ~inner.defined
  /\ Len(inner.decls) < MaxDecls
  /\ \E decl \in { Auto("V" \o ToString(Len(inner.decls))) }
                   \cup { Explicit("V" \o ToString(Len(inner.decls)), v) : v \in 0..MaxValue } :
        /\ inner.kind = "IntFlag" => decl.auto
        /\ inner' = [ inner EXCEPT
                        !.decls = Append(@, decl),
                        !.values = Append(@, IF decl.auto
                                             THEN GenerateNextValue(inner.kind, Len(inner.decls),
                                                                    inner.values)
                                             ELSE decl.value) ]
  /\ UNCHANGED << offset, analysis, definitions, z_rs, pc, real_code, pseudo_code, lookups,
                  error, out, typ, raw, result >>

\* The end of the class statement: the class exists, with its members.
ClassInner ==
  /\ inner.kind \in InnerKinds
  /\ ~inner.defined
  /\ inner.decls # << >>
  /\ inner' = [ inner EXCEPT !.defined = TRUE, !.members = Members(inner.kind, inner.decls) ]
  /\ UNCHANGED << offset, analysis, definitions, z_rs, pc, real_code, pseudo_code, lookups,
                  error, out, typ, raw, result >>

\* NamedOpargType.flags of one of the file's types: its class Inner, whole.
FlagsProperty ==
  /\ inner.kind \in InnerKinds
  /\ inner.decls = << >>
  /\ \E t \in NamedTypes :
        /\ FlagsKind(t) = inner.kind
        /\ typ' = t
        /\ inner' = [ defined |-> TRUE, kind |-> FlagsKind(t), decls |-> FlagsDecls(t),
                      values |-> DeclaredValues(FlagsKind(t), FlagsDecls(t), Len(FlagsDecls(t))),
                      members |-> Flags(t) ]
  /\ UNCHANGED << offset, analysis, definitions, z_rs, pc, real_code, pseudo_code, lookups,
                  error, out, raw, result >>

InitEnum ==
  /\ analysis = WithOrder(DefaultAnalysis, LastFirst(DefaultAnalysis))
  /\ definitions = << >>
  /\ z_rs = << >>
  /\ pc = "start"
  /\ real_code = NotEvaluated
  /\ pseudo_code = NotEvaluated
  /\ lookups = << >>
  /\ error = "none"
  /\ out = NotWritten
  /\ typ = "none"
  /\ raw = 0
  /\ result = NotCalled
  /\ offset = EmptyOffset
  /\ inner \in { EmptyInner(kind) : kind \in InnerKinds }

NextEnum ==
  \/ DeclareMember
  \/ ClassInner
  \/ FlagsProperty

\* The enum classes: those of the file, and any class body of up to MaxDecls
\* declarations.
SpecEnum == InitEnum /\ [][NextEnum]_vars

\* ------------------------------------------------------------------------
\* Failed runs write nothing: claim C19
\* ------------------------------------------------------------------------

\* C19 as the spec states it: when a stage of the generation has failed
\* (building the model, resolving deopts, deriving stack effects, formatting)
\* the artifact has not been written: it is written only after every stage
\* has succeeded.
C19_FailedRunWritesNothing ==
  pc \in { "failed", "unformatted" } => ~ out.written

\* ------------------------------------------------------------------------
\* Operand names and operand types: claim C20
\* ------------------------------------------------------------------------

\* The entry names an operand field ("word:" between braces) and gives it no
\* Arg<...> type.
NameWithoutType(e) ==
  /\ "{" \in Range(e.entry)
  /\ \E i \in 2..Len(e.entry) : e.entry[i] = ":" /\ IsWordChar(e.entry[i - 1])
  /\ FindallType(e.entry) = << >>

\* Every printed record with an operand name has an operand type.
NamedOpargsAreTyped ==
  \A i \in DOMAIN definitions :
     "oparg" \in DOMAIN definitions[i] /\ "name" \in DOMAIN definitions[i].oparg =>
       "type" \in DOMAIN definitions[i].oparg

\* C20 as the spec states it: no record carries an operand name without an
\* operand type, and a run over a definition that gives a name without a
\* type ends with InvalidDefinition.
C20_NameWithoutTypeIsInvalidDefinition ==
  /\ NamedOpargsAreTyped
  /\ pc # "start" /\ (\E i \in DOMAIN z_rs : NameWithoutType(z_rs[i])) =>
       pc = "failed" /\ error = "InvalidDefinition"

\* ------------------------------------------------------------------------
\* Names that do not resolve: claim C21
\* ------------------------------------------------------------------------

\* An instruction of the iteration whose name the opmap does not hold, or
\* whose family's name is the name of no instruction of the set.
Unresolved(insts, opmap) ==
  \E i \in DOMAIN insts :
     \/ insts[i].name \notin DOMAIN opmap
     \/ InstDeopt(insts[i]) \notin DOMAIN NameTable(insts)

\* C21 as the spec states it: once both enums have been asked for, a
\* definition whose name (or whose family's name) does not resolve has made
\* the run fail with UnknownCanonicalName, and nothing was written.
C21_UnresolvedNameIsUnknownCanonicalName ==
  /\ pc # "start" /\ Unresolved(RealIter(analysis), analysis.opmap) =>
       pc = "failed" /\ error = "UnknownCanonicalName" /\ ~ out.written
  /\ pc \notin { "start", "real" } /\ Unresolved(PseudoIter(analysis), analysis.opmap) =>
       pc = "failed" /\ error = "UnknownCanonicalName" /\ ~ out.written

\* ------------------------------------------------------------------------
\* The operand types the cases name: claim C22
\* ------------------------------------------------------------------------

\* The Rust paths that resolve: a type the oparg registry defines, or
\* crate::Oparg, the type every alias of the registry wraps.
ResolvablePaths == { "crate::" \o n : n \in RegistryNames } \cup { "crate::Oparg" }

\* C22 as the spec states it: the operand type of every case of a produced
\* enum, and the type CmpOp is derived from, is a type the oparg registry
\* defines under that name (a reference that is not fails the run with
\* MissingOpargType, so that no enum with such a case is produced).
C22_OperandTypesResolveInRegistry ==
  /\ TypeName("Compare") \in RegistryNames
  /\ \A set \in EvaluatedSets :
        \A k \in DOMAIN set.code.enum_variants :
           HasPayload(set.code.enum_variants, k) =>
             OpargFormat(set.code.enum_variants[k].oparg) \in ResolvablePaths

\* ------------------------------------------------------------------------
\* The variants of a named type: claim C23
\* ------------------------------------------------------------------------

\* C23: the variants rust_def emits for a named type have pairwise distinct
\* values, and they are the variants the type's flags declare, each of them
\* and in the order of the declarations.
C23_EncodingsDistinctAndComplete ==
  LET def == RustDef(typ)
      decls == FlagsDecls(typ)
  IN  /\ \A i, j \in DOMAIN def : i # j => def[i].value # def[j].value
      /\ Len(def) = Len(decls)
      /\ \A k \in DOMAIN def : def[k].name = decls[k].name

\* C23, witness: CmpOp::try_from(7) has returned Ne, the variant whose value
\* is the composite Unordered | LessThan | GreaterThan.
C23_Witness ==
  /\ typ = "CmpOp"
  /\ raw = Cmp("NotEquals")
  /\ result = Ok("Ne")

\* ------------------------------------------------------------------------
\* Placeholder definitions: claim C24
\* ------------------------------------------------------------------------

\* The generated num_popped / num_pushed has an arm for the case.
HasArm(fn_num, name) == \E a \in fn_num : a.arm.name = name

\* The records z.py printed carry the placeholder flag for exactly the
\* entries marked "// Placeholder".
PlaceholderFlagFollowsEntry ==
  pc = "done" /\ z_rs # << >> =>
    \A i \in DOMAIN z_rs : ("placeholder" \in DOMAIN definitions[i]) <=> z_rs[i].placeholder

\* C24 as the spec states it: an instruction whose definition is flagged as
\* a placeholder is given a stack effect by the generator (a degenerate one),
\* so that once the real enum has been asked for, num_popped and num_pushed
\* have an arm for it; and the flag is in a produced definition exactly when
\* the source entry is marked.
C24_PlaceholderGetsDegenerateEffect ==
  /\ PlaceholderFlagFollowsEntry
  /\ pc # "start" =>
       \A i \in DOMAIN definitions :
          "placeholder" \in DOMAIN definitions[i] =>
            LET name == RemoveUnderscores(Title(definitions[i].cpython_name)) IN
            /\ real_code.evaluated
            /\ HasArm(real_code.fn_num_popped, name)
            /\ HasArm(real_code.fn_num_pushed, name)

\* ------------------------------------------------------------------------
\* The size of a stack item: claim C25
\* ------------------------------------------------------------------------

\* The condition of a stack item holds for the operand (C's truth of it).
Holds(condition, oparg) ==
  IF condition = "oparg & 1" THEN oparg % 2 # 0 ELSE Value(condition, oparg)

\* C25: for every operand, the expression written for a stack item has the
\* value 0 when the item's condition is "0", the item's size when it is "1" or
\* absent, and otherwise the size when the condition holds and 0 when it does
\* not; this is so for the form "(oparg & 1)" written for an item of size 1 as
\* well, which therefore equals the general conditional form.
C25_ContributionIsConditionalSize ==
  \A k \in { offset.popped[i] : i \in DOMAIN offset.popped }
            \cup { offset.pushed[i] : i \in DOMAIN offset.pushed } :
     \A oparg \in 0..MaxOparg :
        EvalRust(k.size, oparg) =
          IF k.item.condition = "0" THEN 0
          ELSE IF k.item.condition \in { "", "1" } THEN Value(k.item.size, oparg)
          ELSE IF Holds(k.item.condition, oparg) THEN Value(k.item.size, oparg)
          ELSE 0

\* C25, witness: an item guarded by `oparg & 1` was popped and written in the
\* special form, and an item guarded by a comparison was pushed and written
\* in the general one.
C25_Witness ==
  /\ \E i \in DOMAIN offset.popped :
        offset.popped[i].item.condition = "oparg & 1" /\ offset.popped[i].size.form = "paren"
  /\ \E i \in DOMAIN offset.pushed :
        offset.pushed[i].item.condition = "oparg == 3" /\ offset.pushed[i].size.form = "if"

\* ------------------------------------------------------------------------
\* The operand type of a specialized instruction: claim C26
\* ------------------------------------------------------------------------

\* The instructions reached from those of S in at most n steps of the table.
RECURSIVE Reach(_, _, _)
Reach(S, table, n) ==
  IF n = 0 THEN S
  ELSE Reach(S \cup { table[InstName(x)] : x \in { y \in S : InstName(y) \in DOMAIN table } },
             table, n - 1)

\* The instructions without an entry that following the table from inst
\* arrives at.
DeoptsInto(inst, table) ==
  { x \in Reach({ inst }, table, Cardinality(DOMAIN table)) : InstName(x) \notin DOMAIN table }

\* C26: in a produced enum, a case whose instruction has an entry in the
\* deopt table carries the operand type inferred for the instruction the
\* table leads to, whatever its own properties are, and a case without an
\* entry the type inferred from its own properties.
C26_SpecializedTakesTypeOfDeoptTarget ==
  \A set \in EvaluatedSets :
     LET table == DeoptTable(set.insts) IN
     \A k \in DOMAIN set.insts :
        IF InstName(set.insts[k]) \in DOMAIN table
        THEN \E x \in DeoptsInto(set.insts[k], table) :
                /\ DeoptsInto(set.insts[k], table) = { x }
                /\ set.code.enum_variants[k].oparg = TryFromInstruction(x)
        ELSE set.code.enum_variants[k].oparg = TryFromInstruction(set.insts[k])

\* C26, witness: the real enum was produced with a case that the table leads
\* from in two steps, and whose own properties give another type than the
\* one it carries.
C26_Witness ==
  /\ real_code.evaluated
  /\ LET insts == RealIter(analysis)
         table == DeoptTable(insts)
     IN  \E k \in DOMAIN insts :
            /\ InstName(insts[k]) \in DOMAIN table
            /\ InstName(table[InstName(insts[k])]) \in DOMAIN table
            /\ real_code.enum_variants[k].oparg # TryFromInstruction(insts[k])

\* ------------------------------------------------------------------------
\* C27: operand type inferred from an instruction's properties
\* ------------------------------------------------------------------------

\* The type the six instruction names stand for.
NameSpecificType ==
  (BINARY_OP :> "BinaryOperator") @@ (RESUME :> "Resume") @@
  (RAISE_VARARGS :> "RaiseVarArgs") @@ (CALL_INTRINSIC_1 :> "CallIntrinsic1") @@
  (CALL_INTRINSIC_2 :> "CallIntrinsic2") @@ (UNPACK_EX :> "UnpackEx")

\* C27: in a produced enum, a case whose instruction has no entry in the
\* deopt table has no operand type exactly when its instruction has no
\* oparg; with an oparg it has the type of its name when the name is one of
\* the six, whatever the other properties, and otherwise the jump delta for
\* a jump, else the constant index for a reader of constants, else the name
\* index for a reader of names, else the raw type.
C27_TypeInferredFromNameThenProperties ==
  \A set \in EvaluatedSets :
     LET table == DeoptTable(set.insts) IN
     \A k \in DOMAIN set.insts :
        LET inst == set.insts[k]
            prop == inst.properties
            oparg == set.code.enum_variants[k].oparg
        IN  InstName(inst) \notin DOMAIN table =>
              /\ (oparg = "None") <=> ~prop.oparg
              /\ prop.oparg /\ inst.name \in DOMAIN NameSpecificType =>
                    oparg = NameSpecificType[inst.name]
              /\ prop.oparg /\ inst.name \notin DOMAIN NameSpecificType =>
                    /\ prop.jumps => oparg = "Delta"
                    /\ ~prop.jumps /\ prop.uses_co_consts => oparg = "ConstIdx"
                    /\ ~prop.jumps /\ ~prop.uses_co_consts /\ prop.uses_co_names =>
                          oparg = "NameIdx"
                    /\ ~prop.jumps /\ ~prop.uses_co_consts /\ ~prop.uses_co_names =>
                          oparg = "Raw"

\* C27, witness: the real enum was produced with a case for BINARY_OP whose
\* instruction jumps and reads constants and names, and which carries the
\* type of its name.
C27_Witness ==
  /\ real_code.evaluated
  /\ \E k \in DOMAIN RealIter(analysis) :
        LET inst == RealIter(analysis)[k] IN
        /\ inst.name = BINARY_OP
        /\ inst.properties = JumpConstNameArg
        /\ InstName(inst) \notin DOMAIN DeoptTable(RealIter(analysis))
        /\ real_code.enum_variants[k].oparg = "BinaryOperator"

\* ------------------------------------------------------------------------
\* C28: the shape of a match arm is the shape of its variant
\* ------------------------------------------------------------------------

\* Every pattern written into a function of the code: the arms of the has_*
\* functions, the left sides of num_popped and num_pushed, and both sides of
\* the arms of deopt.
MatchArms(code) ==
  UNION { code.fn_has[fn] : fn \in DOMAIN code.fn_has }
    \cup { a.arm : a \in code.fn_num_popped \cup code.fn_num_pushed }
    \cup { d.left : d \in code.fn_deopt } \cup { d.right : d \in code.fn_deopt }

\* C28: in a produced enum, every pattern of every generated function names
\* a variant of the enum, and carries a payload pattern exactly when that
\* variant is declared with a payload.
C28_ArmShapeIsVariantShape ==
  \A set \in EvaluatedSets :
     \A arm \in MatchArms(set.code) :
        /\ \E k \in DOMAIN set.code.enum_variants : set.code.enum_variants[k].name = arm.name
        /\ \A k \in DOMAIN set.code.enum_variants :
              set.code.enum_variants[k].name = arm.name =>
                (arm.payload <=> HasPayload(set.code.enum_variants, k))

\* C28, witness: the real enum was produced with an instruction that has an
\* oparg and deopts into one without: its variant has no payload, and it has
\* an arm in has_arg, in num_popped and on the left of deopt.
C28_Witness ==
  /\ real_code.evaluated
  /\ \E k \in DOMAIN RealIter(analysis) :
        LET inst == RealIter(analysis)[k] IN
        /\ inst.properties.oparg
        /\ ~HasPayload(real_code.enum_variants, k)
        /\ \E arm \in real_code.fn_has["arg"] : arm.name = InstName(inst)
        /\ \E a \in real_code.fn_num_popped : a.arm.name = InstName(inst)
        /\ \E d \in real_code.fn_deopt : d.left.name = InstName(inst)

\* ------------------------------------------------------------------------
\* C29: the deopt table and the arms of deopt
\* ------------------------------------------------------------------------

\* C29: for a produced real enum, the keys of the deopt table are exactly the
\* names of the instructions whose deopt name is not their own name, none of
\* them an instruction without a family; every entry is the instruction the
\* name table has under that deopt name; the generated deopt has exactly one
\* arm per entry, from the entry's key to the entry's instruction, and gives
\* None for every other case.
C29_DeoptArmsAreTableEntries ==
  real_code.evaluated =>
    LET insts == RealIter(analysis)
        table == DeoptTable(insts)
        names == NameTable(insts)
    IN  /\ DOMAIN table =
              { InstName(insts[k]) : k \in { j \in DOMAIN insts : InstName(insts[j]) # InstDeopt(insts[j]) } }
        /\ \A k \in DOMAIN insts :
              LET inst == insts[k]
                  arms == { d \in real_code.fn_deopt : d.left.name = InstName(inst) }
              IN  IF InstName(inst) \in DOMAIN table
                  THEN /\ inst.family # None
                       /\ InstDeopt(inst) \in DOMAIN names
                       /\ table[InstName(inst)] = names[InstDeopt(inst)]
                       /\ Cardinality(arms) = 1
                       /\ Deopt(real_code.fn_deopt, InstName(inst)) = InstDeopt(inst)
                  ELSE /\ arms = {}
                       /\ Deopt(real_code.fn_deopt, InstName(inst)) = None
        /\ Cardinality(real_code.fn_deopt) = Cardinality(DOMAIN table)

\* C29, witness: the real enum was produced from a set where two
\* instructions deopt into a third, which has no family and for which deopt
\* gives None; deopt has two arms.
C29_Witness ==
  /\ real_code.evaluated
  /\ Cardinality(real_code.fn_deopt) = 2
  /\ \E d, e \in real_code.fn_deopt : d # e /\ d.right = e.right
  /\ \E k \in DOMAIN RealIter(analysis) :
        /\ RealIter(analysis)[k].family = None
        /\ Deopt(real_code.fn_deopt, InstName(RealIter(analysis)[k])) = None

\* ------------------------------------------------------------------------
\* C30: automatic values
\* ------------------------------------------------------------------------

\* 2 ^ n
RECURSIVE PowerOfTwo(_)
PowerOfTwo(n) == IF n = 0 THEN 1 ELSE 2 * PowerOfTwo(n - 1)

\* Every member of the class is declared with auto().
AllAuto(decls) == \A i \in DOMAIN decls : decls[i].auto

\* C30: in a class Inner based on IntEnum, every value given by auto() is the
\* number of members declared before it, whatever values those have; when
\* every member is declared with auto(), the class has every declared member,
\* in declaration order, the n-th with the encoding n-1, except under IntFlag,
\* where the n-th has the encoding 2^(n-1); of the file's types only
\* SetFunctionAttribute is based on IntFlag, and its encodings are 1, 2, 4, 8.
C30_AutoValueIsDeclarationCount ==
  /\ inner.kind = "IntEnum" =>
        \A i \in DOMAIN inner.decls : inner.decls[i].auto => inner.values[i] = i - 1
  /\ inner.defined /\ AllAuto(inner.decls) =>
        /\ Len(inner.members) = Len(inner.decls)
        /\ \A n \in DOMAIN inner.members :
              /\ inner.members[n].name = inner.decls[n].name
              /\ inner.members[n].value =
                    IF inner.kind = "IntFlag" THEN PowerOfTwo(n - 1) ELSE n - 1
  /\ typ \in NamedTypes =>
        /\ (inner.kind = "IntFlag") <=> (typ = "SetFunctionAttribute")
        /\ typ = "SetFunctionAttribute" =>
              [ n \in DOMAIN inner.members |-> inner.members[n].value ] = << 1, 2, 4, 8 >>

\* C30, witness: a class based on IntEnum exists whose second member was
\* declared with auto() after a first one with the explicit value 2, and got
\* the value 1.
C30_Witness ==
  /\ inner.defined
  /\ inner.kind = "IntEnum"
  /\ Len(inner.decls) >= 2
  /\ ~inner.decls[1].auto /\ inner.decls[1].value = 2
  /\ inner.decls[2].auto /\ inner.values[2] = 1

====
